---- MODULE Spec2Model ----
(***************************************************************************)
(* vv-speaker: text normalisation, reply generation, speaker resolution,   *)
(* player selection, the streaming synthesis/playback pipeline, the        *)
(* cross-process lock and the single-worker request queue of vv_box.py.    *)
(*                                                                         *)
(* A text is a sequence of characters.  Characters outside ASCII are       *)
(* written by name: Maru is the ideographic full stop, ZBang and ZQues the *)
(* full-width exclamation and question marks.                              *)
(***************************************************************************)
EXTENDS Integers, Sequences, FiniteSets, TLC

Maru == "maru"
ZBang == "zbang"
ZQues == "zques"
Bang == "!"
Ques == "?"
Space == " "
CR == "cr"
LF == "lf"
Dash == "-"
Star == "*"

\* Python's None where a text is expected: a value no text equals
None == <<"None">>

\* \s of the regular expressions, over the characters of the model
IsWs(c) == c \in {Space, CR, LF}

\* [\-\*] of the list-marker pattern
IsMarker(c) == c \in {Dash, Star}

\* text.replace("\r", " ").replace("\n", " ")
ReplaceNewlines(t) ==
    [i \in 1..Len(t) |-> IF t[i] \in {CR, LF} THEN Space ELSE t[i]]

\* text.replace("\n", " ")
ReplaceLF(t) ==
    [i \in 1..Len(t) |-> IF t[i] = LF THEN Space ELSE t[i]]

\* The scanning helpers are recursive functions: an application evaluates its
\* argument once.

\* re.sub(r"\s+", " ", text): every maximal run of whitespace becomes one space
CollapseWsF[t \in Seq(STRING)] ==
    IF t = <<>> THEN <<>>
    ELSE IF IsWs(Head(t))
         THEN IF Len(t) > 1 /\ IsWs(t[2])
              THEN CollapseWsF[Tail(t)]
              ELSE <<Space>> \o CollapseWsF[Tail(t)]
         ELSE <<Head(t)>> \o CollapseWsF[Tail(t)]

CollapseWs(t) == CollapseWsF[t]

LStripF[t \in Seq(STRING)] ==
    IF t # <<>> /\ IsWs(Head(t)) THEN LStripF[Tail(t)] ELSE t

RStripF[t \in Seq(STRING)] ==
    IF t # <<>> /\ IsWs(t[Len(t)]) THEN RStripF[SubSeq(t, 1, Len(t) - 1)] ELSE t

LStrip(t) == LStripF[t]

\* str.rstrip()
RStrip(t) == RStripF[t]

\* str.strip()
Strip(t) == RStrip(LStrip(t))

\* number of whitespace characters of t from position i on (greedy \s+)
WsRun[t \in Seq(STRING), i \in Nat] ==
    IF i <= Len(t) /\ IsWs(t[i]) THEN 1 + WsRun[t, i + 1] ELSE 0

\* length of the match of (?:^|\s)[\-\*]\s+ that starts at position i, 0 if none
MarkerMatch(t, i) ==
    IF i = 1 /\ Len(t) >= 2 /\ IsMarker(t[1]) /\ WsRun[t, 2] > 0
    THEN 1 + WsRun[t, 2]
    ELSE IF i + 1 <= Len(t) /\ IsWs(t[i]) /\ IsMarker(t[i + 1])
            /\ WsRun[t, i + 2] > 0
         THEN 2 + WsRun[t, i + 2]
         ELSE 0

\* re.sub(r"(?:^|\s)[\-\*]\s+", " ", text): leftmost non-overlapping matches,
\* scanning from position i
SubMarkersF[t \in Seq(STRING), i \in Nat] ==
    IF i > Len(t) THEN <<>>
    ELSE IF MarkerMatch(t, i) > 0
         THEN <<Space>> \o SubMarkersF[t, i + MarkerMatch(t, i)]
         ELSE <<t[i]>> \o SubMarkersF[t, i + 1]

SubMarkers(t) == SubMarkersF[t, 1]

\* the cleanup shared by normalize_text and normalize_direct_text
CleanText(t) ==
    Strip(SubMarkers(Strip(CollapseWs(ReplaceNewlines(t)))))

LastChar(t) == t[Len(t)]

\* str.rfind of a one-character needle, 0-based, -1 when absent
RFindF[t \in Seq(STRING), c \in STRING] ==
    IF t = <<>> THEN -1
    ELSE IF LastChar(t) = c THEN Len(t) - 1
         ELSE RFindF[SubSeq(t, 1, Len(t) - 1), c]

RFind(t, c) == RFindF[t, c]

Max2(a, b) == IF a >= b THEN a ELSE b

\* text[:n]
Prefix(t, n) == SubSeq(t, 1, IF n <= 0 THEN 0 ELSE IF n > Len(t) THEN Len(t) ELSE n)

\* re.search(r"[。！？]$", text)
EndsWithZTerm(t) == t # <<>> /\ LastChar(t) \in {Maru, ZBang, ZQues}

\* a test for a closing mark that knows the full-width marks only
EndsWithFullWidthTerm(t) == t # <<>> /\ LastChar(t) \in {Maru, ZBang, ZQues}

\* re.search(r"[。！？!?]$", text)
EndsWithTerm(t) == t # <<>> /\ LastChar(t) \in {Maru, ZBang, ZQues, Bang, Ques}

\* the length enforcement of normalize_text on a text longer than max_chars
Truncate(t, min_chars, max_chars) ==
    LET head == Prefix(t, max_chars + 1)
        idx == Max2(Max2(RFind(head, Maru), RFind(head, ZBang)), RFind(head, ZQues))
    IN  IF idx >= min_chars - 1
        THEN Prefix(head, idx + 1)
        ELSE RStrip(Prefix(t, max_chars)) \o <<Maru>>

\* a normalize_text without its final check of the minimum
normalize_text_unchecked(text, min_chars, max_chars) ==
    LET t1 == CleanText(text)
        t2 == IF EndsWithZTerm(t1) THEN t1 ELSE t1 \o <<Maru>>
        t3 == IF Len(t2) > max_chars THEN Truncate(t2, min_chars, max_chars) ELSE t2
    IN  IF t1 = <<>> THEN None
        ELSE IF LastChar(t1) \in {Ques, ZQues} THEN None
        ELSE t3

normalize_text(text, min_chars, max_chars) ==
    LET t1 == CleanText(text)
        t2 == IF EndsWithZTerm(t1) THEN t1 ELSE t1 \o <<Maru>>
        t3 == IF Len(t2) > max_chars THEN Truncate(t2, min_chars, max_chars) ELSE t2
    IN  IF t1 = <<>> THEN None
        ELSE IF LastChar(t1) \in {Ques, ZQues} THEN None
        ELSE IF Len(t3) < min_chars THEN None
        ELSE t3

normalize_direct_text(text) ==
    LET t1 == CleanText(text)
    IN  IF t1 = <<>> THEN None
        ELSE IF EndsWithTerm(t1) THEN t1 ELSE t1 \o <<Maru>>

\* re.split(r"(?<=[。！？!?])", text): cut after every sentence-ending
\* mark; cur is the piece being collected
SplitAfterTermF[t \in Seq(STRING), cur \in Seq(STRING)] ==
    IF t = <<>> THEN <<cur>>
    ELSE IF Head(t) \in {Maru, ZBang, ZQues, Bang, Ques}
         THEN <<cur \o <<Head(t)>> >> \o SplitAfterTermF[Tail(t), <<>>]
         ELSE SplitAfterTermF[Tail(t), cur \o <<Head(t)>>]

SplitAfterTerm(t) == SplitAfterTermF[t, <<>>]

\* [p.strip() for p in parts if p.strip()]
StripNonEmptyF[ps \in Seq(Seq(STRING))] ==
    IF ps = <<>> THEN <<>>
    ELSE IF Strip(Head(ps)) = <<>> THEN StripNonEmptyF[Tail(ps)]
         ELSE <<Strip(Head(ps))>> \o StripNonEmptyF[Tail(ps)]

StripNonEmpty(ps) == StripNonEmptyF[ps]

split_sentences(text) ==
    LET normalized == Strip(CollapseWs(ReplaceLF(text)))
        parts == StripNonEmpty(SplitAfterTerm(normalized))
    IN  IF normalized = <<>> THEN <<>>
        ELSE IF parts = <<>> THEN <<normalized>> ELSE parts

(***************************************************************************)
(* Configuration, environment and the values requests are drawn from.      *)
(***************************************************************************)

\* the fixed fallback reply: two sentences, as in the source
FALLBACK_REPLY == <<"f", Maru, "g", Maru>>

\* bounds of the model: the POST /speak requests of a run in which the API
\* process is alone, and the requests of each process (POST /speak bodies,
\* CLI lines) of a run in which an API process and a CLI process share the
\* lock path
MaxRequests == 3
MaxShared == 1

\* the GET /health requests of a run in which the API process answers them
\* beside one POST /speak
MaxHealth == 1

\* queue.Queue(maxsize=2) of the streaming handoff
SynthQueueMaxsize == 2

\* "no voice id" (Python None / an exception) where an integer id is expected
NoId == -1

\* what GET /speakers returns: visible name and style ids, in order
Directory ==
    << [name |-> "himari", styles |-> <<14, 15>>],
       [name |-> "mute", styles |-> <<>>],
       [name |-> "mute", styles |-> <<9>>] >>

\* VoicevoxClient.resolve_speaker_id over the directory; NoId stands for the
\* RuntimeError("Speaker not found")
RECURSIVE ClientResolve(_, _)
ClientResolve(speakers, speaker_name) ==
    IF speakers = <<>> THEN NoId
    ELSE IF Head(speakers).name # speaker_name
         THEN ClientResolve(Tail(speakers), speaker_name)
         ELSE IF Head(speakers).styles = <<>> THEN NoId
              ELSE Head(speakers).styles[1]

\* speaker strings made of digits, with their int() value
DigitValue == [s \in {"7"} |-> 7]

SpeakerNames == {"himari", "mute", "ghost"}

\* the player programs probed, in probing order, with the command returned
PlayerCandidates ==
    << [prog |-> "pw-play", cmd |-> <<"pw-play">>],
       [prog |-> "paplay", cmd |-> <<"paplay">>],
       [prog |-> "aplay", cmd |-> <<"aplay", "-q">>] >>

\* shlex.split over a command given as words and blanks
ShlexSplit(user_command) == SelectSeq(user_command, LAMBDA w : ~IsWs(w))

\* a probe that prefers the last candidate of the list
RECURSIVE LastInstalled(_, _)
LastInstalled(cands, which) ==
    IF cands = <<>> THEN <<>>
    ELSE IF cands[Len(cands)].prog \in which THEN cands[Len(cands)].cmd
         ELSE LastInstalled(SubSeq(cands, 1, Len(cands) - 1), which)

RECURSIVE FirstInstalled(_, _)
FirstInstalled(cands, which) ==
    IF cands = <<>> THEN <<>>
    ELSE IF Head(cands).prog \in which THEN Head(cands).cmd
         ELSE FirstInstalled(Tail(cands), which)

\* detect_player_command; <<>> stands for the RuntimeError("No audio player found")
detect_player_command(user_command, which) ==
    IF Strip(user_command) # <<>> THEN ShlexSplit(user_command)
    ELSE FirstInstalled(PlayerCandidates, which)

\* outcome of one run_llm call: the stripped output, or LlmFail for every
\* exception (timeout, non-zero exit, empty output)
LlmFail == <<"LlmFail">>

\* a _make_reply whose last resort is the normalized fallback alone
make_reply_without_last_resort(text, mode, min_chars, max_chars, o1, o2) ==
    LET direct == normalize_direct_text(text)
        raw1 == IF o1 = LlmFail THEN FALLBACK_REPLY ELSE o1
        raw2 == IF o2 = LlmFail THEN FALLBACK_REPLY ELSE o2
        n1 == normalize_text(raw1, min_chars, max_chars)
        n2 == normalize_text(raw2, min_chars, max_chars)
        fb == normalize_text(FALLBACK_REPLY, min_chars, max_chars)
        Truthy(n) == n # None /\ n # <<>>
    IN  IF mode = "direct"
        THEN [reply_text |-> IF Truthy(direct) THEN direct ELSE FALLBACK_REPLY,
              reply_source |-> "direct", llm_calls |-> 0,
              llm_failed |-> FALSE]
        ELSE IF Truthy(n1)
        THEN [reply_text |-> n1, reply_source |-> "llm", llm_calls |-> 1,
              llm_failed |-> (o1 = LlmFail)]
        ELSE IF Truthy(n2)
        THEN [reply_text |-> n2, reply_source |-> "llm", llm_calls |-> 2,
              llm_failed |-> (o1 = LlmFail \/ o2 = LlmFail)]
        ELSE [reply_text |-> fb,
              reply_source |-> "fallback", llm_calls |-> 2,
              llm_failed |-> (o1 = LlmFail \/ o2 = LlmFail)]

\* BoxLogic._make_reply, given the outcomes of the two LLM calls it may make
make_reply(text, mode, min_chars, max_chars, o1, o2) ==
    LET direct == normalize_direct_text(text)
        raw1 == IF o1 = LlmFail THEN FALLBACK_REPLY ELSE o1
        raw2 == IF o2 = LlmFail THEN FALLBACK_REPLY ELSE o2
        n1 == normalize_text(raw1, min_chars, max_chars)
        n2 == normalize_text(raw2, min_chars, max_chars)
        fb == normalize_text(FALLBACK_REPLY, min_chars, max_chars)
        Truthy(n) == n # None /\ n # <<>>
    IN  IF mode = "direct"
        THEN [reply_text |-> IF Truthy(direct) THEN direct ELSE FALLBACK_REPLY,
              reply_source |-> "direct", llm_calls |-> 0,
              llm_failed |-> FALSE]
        ELSE IF Truthy(n1)
        THEN [reply_text |-> n1, reply_source |-> "llm", llm_calls |-> 1,
              llm_failed |-> (o1 = LlmFail)]
        ELSE IF Truthy(n2)
        THEN [reply_text |-> n2, reply_source |-> "llm", llm_calls |-> 2,
              llm_failed |-> (o1 = LlmFail \/ o2 = LlmFail)]
        ELSE [reply_text |-> IF Truthy(fb) THEN fb ELSE FALLBACK_REPLY,
              reply_source |-> "fallback", llm_calls |-> 2,
              llm_failed |-> (o1 = LlmFail \/ o2 = LlmFail)]

(***************************************************************************)
(* The state machine.  Two callers of BoxLogic.process share the lock      *)
(* path: the worker thread of an API process and the main thread of a CLI  *)
(* process; each process has its own BoxLogic.                             *)
(***************************************************************************)

Callers == {"worker", "cli"}

\* request values
CliLines == {<<"a", Bang, "b">>, <<Space>>}
LlmOutcomes == {LlmFail, <<"a", Maru, "b", "c">>}
\* the POST /speak bodies tried: no text, a blank text, a two-sentence direct
\* request, an llm request with a numeric speaker, a dry run with a named
\* speaker, and a request whose speaker is not in the directory
Payloads ==
    { [text |-> <<>>, mode |-> "direct", dry_run |-> FALSE, speaker |-> ""],
      [text |-> <<Space>>, mode |-> "direct", dry_run |-> FALSE, speaker |-> ""],
      [text |-> <<"a", Maru, "b">>, mode |-> "direct", dry_run |-> FALSE, speaker |-> ""],
      [text |-> <<"a">>, mode |-> "llm", dry_run |-> FALSE, speaker |-> "7"],
      [text |-> <<"a">>, mode |-> "direct", dry_run |-> TRUE, speaker |-> "himari"],
      [text |-> <<"a">>, mode |-> "direct", dry_run |-> FALSE, speaker |-> "ghost"] }

QueueMaxValues == {0, 1}
PlayerCommands == {<<>>}
InstalledSets == {{}, {"paplay", "aplay"}}

VARIABLES
    cfg,        \* Config: read-only after start
    installed,  \* the programs shutil.which finds
    lock,       \* the caller holding the flock on cfg.lock_path, or "free"
    pc,         \* where each caller is
    ctx,        \* the locals of each caller's process() call
    prod,       \* the synth_worker thread and synth_queue of each caller's request
    orphans,    \* synth_worker threads still alive after their request returned
    player_cmd, \* BoxLogic.player_cmd of each caller's process
    cache,      \* BoxLogic._speaker_id_cache of each caller's process
    q,          \* APIService.q: ids of the queued tasks
    posts,      \* every POST /speak so far: payload, APITask state, HTTP answer
    lines,      \* input lines the CLI has not read yet
    printed,    \* Results the CLI has printed
    maxPosts,   \* the POST /speak requests of this run
    queries,    \* history: GET /speakers queries each process's resolver made, by name
    health,     \* the GET /health handler thread of the API process
    call,       \* the function applied last, with its arguments
    ret         \* what it returned

vars == <<cfg, installed, lock, pc, ctx, prod, orphans, player_cmd, cache, q,
          posts, lines, printed, maxPosts, queries, health, call, ret>>

NoResult == [reply_text |-> None, played |-> FALSE, speaker_id |-> NoId,
             reply_source |-> "", mode |-> "", error |-> "None"]

NoCtx == [task |-> 0, text |-> <<>>, mode |-> "", dry_run |-> FALSE,
          speaker |-> "", speaker_id |-> NoId, reply_text |-> None,
          reply_source |-> "", llm_calls |-> 0, error |-> "None",
          played |-> FALSE, wav |-> 0, segments |-> <<>>, result |-> NoResult,
          \* history of the call, kept for the properties
          playlog |-> <<>>, synthlog |-> <<>>, attempts |-> 0,
          faults |-> {}, hit |-> FALSE]

NoProd == [pc |-> "none", owner |-> <<"none", 0>>, n |-> 0, i |-> 0,
           q |-> <<>>, synthed |-> <<>>, failed |-> FALSE]

\* the sentinel None of synth_queue; a payload is the index of its segment
Sentinel == 0

\* no function has been applied
NoCall == [fn |-> "none", applied |-> FALSE]

\* the directory queries counted: QueryCap stands for "QueryCap or more"
QueryCap == 2

\* the state after start-up, for a run of `nposts` POST /speak requests,
\* `nlines` CLI lines and `nhealth` GET /health requests
InitRun(nposts, nlines, nhealth) ==
    /\ cfg \in [queue_max : QueueMaxValues, stream_playback : BOOLEAN,
                player_command : PlayerCommands, speaker_name : {"himari"},
                min_chars : {3}, max_chars : {5}]
    /\ installed \in InstalledSets
    /\ lock = "free"
    /\ pc = [c \in Callers |-> "idle"]
    /\ ctx = [c \in Callers |-> NoCtx]
    /\ prod = [c \in Callers |-> NoProd]
    /\ orphans = {}
    /\ player_cmd = [c \in Callers |-> None]
    /\ cache = [c \in Callers |-> [n \in SpeakerNames |-> NoId]]
    /\ q = <<>>
    /\ posts = <<>>
    /\ lines = nlines
    /\ maxPosts = nposts
    /\ printed = 0
    /\ queries = [c \in Callers |-> [n \in SpeakerNames |-> 0]]
    /\ health = [pc |-> "idle", left |-> nhealth]

Init ==
    /\ \/ InitRun(MaxRequests, 0, 0)
       \/ InitRun(MaxShared, MaxShared, 0)
       \/ InitRun(MaxShared, 0, MaxHealth)
    /\ call = NoCall
    /\ ret = None

(***************************************************************************)
(* POST /speak and APIService.enqueue                                      *)
(***************************************************************************)

\* a capacity test that is off by one
FullOffByOne(queue, maxsize) == maxsize > 0 /\ Len(queue) > maxsize

\* queue.Queue.put_nowait raises Full: maxsize <= 0 is an unbounded queue
Full(queue, maxsize) == maxsize > 0 /\ Len(queue) >= maxsize

NoPayload == [text |-> <<>>, mode |-> "", dry_run |-> FALSE, speaker |-> ""]

NewPost(payload, status) ==
    [payload |-> payload, http |-> status, done |-> FALSE, result |-> NoResult,
     faults |-> {}]

\* a request that has been answered: its APITask is no longer referenced;
\* of its history, a failed player selection is kept
Answered(status, faults) ==
    [payload |-> NoPayload, http |-> status, done |-> TRUE, result |-> NoResult,
     faults |-> faults \cap {"detect"}]

\* do_POST: text missing or blank: 400, nothing is enqueued
DoPost400(payload) ==
    /\ Len(posts) < maxPosts
    /\ Strip(payload.text) = <<>>
    /\ posts' = Append(posts, NewPost(payload, 400))
    /\ UNCHANGED <<cfg, installed, lock, pc, ctx, prod, orphans, player_cmd,
                   cache, q, lines, printed, maxPosts,
                   queries, health, call, ret>>

\* a rejection that leaves the rejected task in the queue
DoPostFullStillQueued(payload) ==
    /\ Len(posts) < maxPosts
    /\ Strip(payload.text) # <<>>
    /\ Full(q, cfg.queue_max)
    /\ posts' = Append(posts, NewPost(payload, 429))
    /\ q' = Append(q, Len(posts) + 1)
    /\ UNCHANGED <<cfg, installed, lock, pc, ctx, prod, orphans, player_cmd,
                   cache, lines, printed, maxPosts,
                   queries, health, call, ret>>

\* do_POST: enqueue raises queue.Full: 429
DoPostFull(payload) ==
    /\ Len(posts) < maxPosts
    /\ Strip(payload.text) # <<>>
    /\ Full(q, cfg.queue_max)
    /\ posts' = Append(posts, NewPost(payload, 429))
    /\ UNCHANGED <<cfg, installed, lock, pc, ctx, prod, orphans, player_cmd,
                   cache, q, lines, printed, maxPosts,
                   queries, health, call, ret>>

\* do_POST: enqueue succeeds; the handler then waits on task.done (http 0)
DoPostEnqueue(payload) ==
    /\ Len(posts) < maxPosts
    /\ Strip(payload.text) # <<>>
    /\ ~Full(q, cfg.queue_max)
    /\ posts' = Append(posts, NewPost(payload, 0))
    /\ q' = Append(q, Len(posts) + 1)
    /\ UNCHANGED <<cfg, installed, lock, pc, ctx, prod, orphans, player_cmd,
                   cache, lines, printed, maxPosts,
                   queries, health, call, ret>>

\* a handler that answers 500 whenever the result has an error
DoPostRespond500OnError(id) ==
    /\ posts[id].http = 0
    /\ posts[id].done
    /\ posts' = [posts EXCEPT ![id] =
                    Answered(IF posts[id].result.error # "None" THEN 500 ELSE 200,
                             posts[id].faults)]
    /\ UNCHANGED <<cfg, installed, lock, pc, ctx, prod, orphans, player_cmd,
                   cache, q, lines, printed, maxPosts,
                   queries, health, call, ret>>

\* do_POST after task.done.wait(): 500 for a result with an error and no
\* reply_text, 200 otherwise ("error" is a key of every result)
DoPostRespond(id) ==
    /\ posts[id].http = 0
    /\ posts[id].done
    /\ posts' = [posts EXCEPT ![id] =
                    Answered(IF posts[id].result.reply_text = None THEN 500 ELSE 200,
                             posts[id].faults)]
    /\ UNCHANGED <<cfg, installed, lock, pc, ctx, prod, orphans, player_cmd,
                   cache, q, lines, printed, maxPosts,
                   queries, health, call, ret>>

(***************************************************************************)
(* Callers of process(): APIService._worker and run_cli                    *)
(***************************************************************************)

StartCtx(task, text, mode, dry_run, speaker) ==
    [NoCtx EXCEPT !.task = task, !.text = text, !.mode = mode,
                  !.dry_run = dry_run, !.speaker = speaker]

\* a queue that hands out the newest task first
NextTaskLifo(queue) == queue[Len(queue)]

\* the task q.get() hands to the worker
NextTask(queue) == Head(queue)

\* _worker: task = self.q.get(), then the call of process() up to the flock
WorkerGet ==
    /\ pc["worker"] = "idle"
    /\ q # <<>>
    /\ LET id == NextTask(q)
           pl == posts[id].payload
       IN  /\ q' = SelectSeq(q, LAMBDA x : x # id)
           /\ ctx' = [ctx EXCEPT !["worker"] =
                         StartCtx(id, pl.text, pl.mode, pl.dry_run, pl.speaker)]
    /\ pc' = [pc EXCEPT !["worker"] = "lock"]
    /\ UNCHANGED <<cfg, installed, lock, prod, orphans, player_cmd, cache,
                   posts, lines, printed, maxPosts,
                   queries, health, call, ret>>

\* run_cli: a blank line is skipped
CliSkip(line) ==
    /\ pc["cli"] = "idle"
    /\ lines > 0
    /\ Strip(line) = <<>>
    /\ lines' = lines - 1
    /\ UNCHANGED <<cfg, installed, lock, pc, ctx, prod, orphans, player_cmd,
                   cache, q, posts, printed, maxPosts,
                   queries, health, call, ret>>

\* run_cli: process(text=line.strip(), mode="llm", dry_run=False)
CliRead(line) ==
    /\ pc["cli"] = "idle"
    /\ lines > 0
    /\ Strip(line) # <<>>
    /\ lines' = lines - 1
    /\ ctx' = [ctx EXCEPT !["cli"] = StartCtx(0, Strip(line), "llm", FALSE, "")]
    /\ pc' = [pc EXCEPT !["cli"] = "lock"]
    /\ UNCHANGED <<cfg, installed, lock, prod, orphans, player_cmd, cache, q,
                   posts, printed, maxPosts,
                   queries, health, call, ret>>

\* run_cli: print(json.dumps(result))
CliPrint ==
    /\ pc["cli"] = "returned"
    /\ printed' = printed + 1
    /\ pc' = [pc EXCEPT !["cli"] = "idle"]
    /\ ctx' = [ctx EXCEPT !["cli"] = NoCtx]
    /\ UNCHANGED <<cfg, installed, lock, prod, orphans, player_cmd, cache, q,
                   posts, lines, maxPosts,
                   queries, health, call, ret>>

\* _worker: task.result = the result of process(); finally: task.done.set()
WorkerPost ==
    /\ pc["worker"] = "returned"
    /\ posts' = [posts EXCEPT ![ctx["worker"].task] =
                    [@ EXCEPT !.result = ctx["worker"].result, !.done = TRUE,
                              !.faults = ctx["worker"].faults]]
    /\ pc' = [pc EXCEPT !["worker"] = "idle"]
    /\ ctx' = [ctx EXCEPT !["worker"] = NoCtx]
    /\ UNCHANGED <<cfg, installed, lock, prod, orphans, player_cmd, cache, q,
                   lines, printed, maxPosts,
                   queries, health, call, ret>>

\* a worker without the except and finally clauses: the exception ends the
\* thread
WorkerDies ==
    /\ pc["worker"] = "raised"
    /\ pc' = [pc EXCEPT !["worker"] = "dead"]
    /\ UNCHANGED <<cfg, installed, lock, ctx, prod, orphans, player_cmd, cache,
                   q, posts, lines, printed, maxPosts,
                   queries, health, call, ret>>

\* _worker: except Exception: task.result = {"error": str(exc)}; finally:
\* task.done.set()
WorkerExcept ==
    /\ pc["worker"] = "raised"
    /\ posts' = [posts EXCEPT ![ctx["worker"].task] =
                    [@ EXCEPT !.result = [NoResult EXCEPT !.error = ctx["worker"].error],
                              !.done = TRUE,
                              !.faults = ctx["worker"].faults]]
    /\ pc' = [pc EXCEPT !["worker"] = "idle"]
    /\ ctx' = [ctx EXCEPT !["worker"] = NoCtx]
    /\ UNCHANGED <<cfg, installed, lock, prod, orphans, player_cmd, cache, q,
                   lines, printed, maxPosts,
                   queries, health, call, ret>>

(***************************************************************************)
(* ProcessLock and BoxLogic.process                                        *)
(***************************************************************************)

\* a lock that does not exclude (a shared lock, or one per process)
LockNeverHeld(c) == TRUE

\* fcntl.flock(fd, LOCK_EX) on a freshly opened description returns
LockAvailable(c) == lock = "free"

\* ProcessLock.__enter__
Acquire(c) ==
    /\ pc[c] = "lock"
    /\ LockAvailable(c)
    /\ lock' = c
    /\ pc' = [pc EXCEPT ![c] = "resolve"]
    /\ UNCHANGED <<cfg, installed, ctx, prod, orphans, player_cmd, cache, q,
                   posts, lines, printed, maxPosts,
                   queries, health, call, ret>>

\* a release written after the body instead of in __exit__: skipped when an
\* exception leaves the scope
LockExitOnReturnOnly(c, exc) == IF lock = c /\ ~exc THEN "free" ELSE lock

\* ProcessLock.__exit__, run by the with statement on return (exc = FALSE)
\* and on an exception leaving the scope (exc = TRUE): the new lock holder
LockExit(c, exc) == IF lock = c THEN "free" ELSE lock

\* a resolver that never looks into its cache
ResolveLocalNoCache(c, speaker) ==
    LET name == IF speaker = "" THEN cfg.speaker_name ELSE speaker
    IN  IF name \in DOMAIN DigitValue THEN DigitValue[name] ELSE NoId

\* BoxLogic.resolve_speaker_id without a directory query: an absent speaker
\* is the configured one, digits are an id, a cached name is its id
ResolveLocal(c, speaker) ==
    LET name == IF speaker = "" THEN cfg.speaker_name ELSE speaker
    IN  IF name \in DOMAIN DigitValue THEN DigitValue[name]
        ELSE cache[c][name]

ResolveName(speaker) == IF speaker = "" THEN cfg.speaker_name ELSE speaker

\* self.client.resolve_speaker_id(speaker_str) is called: one more GET
\* /speakers by the resolver of c's process, for this name
Queried(c, name) ==
    [queries EXCEPT ![c][name] = IF @ < QueryCap THEN @ + 1 ELSE @]

\* process: speaker_id = self.resolve_speaker_id(speaker), answered locally
ResolveHit(c) ==
    /\ pc[c] = "resolve"
    /\ ResolveLocal(c, ctx[c].speaker) # NoId
    /\ ctx' = [ctx EXCEPT ![c].speaker_id = ResolveLocal(c, ctx[c].speaker),
                          ![c].hit = ResolveName(ctx[c].speaker) \in SpeakerNames]
    /\ pc' = [pc EXCEPT ![c] = "reply"]
    /\ UNCHANGED <<cfg, installed, lock, prod, orphans, player_cmd, cache, q,
                   posts, lines, printed, maxPosts,
                   queries, health, call, ret>>

\* process: resolve_speaker_id queries the directory, finds the name and
\* caches the id
ResolveQuery(c) ==
    /\ pc[c] = "resolve"
    /\ ResolveLocal(c, ctx[c].speaker) = NoId
    /\ ClientResolve(Directory, ResolveName(ctx[c].speaker)) # NoId
    /\ LET id == ClientResolve(Directory, ResolveName(ctx[c].speaker))
       IN  /\ cache' = [cache EXCEPT ![c][ResolveName(ctx[c].speaker)] = id]
           /\ ctx' = [ctx EXCEPT ![c].speaker_id = id]
    /\ queries' = Queried(c, ResolveName(ctx[c].speaker))
    /\ pc' = [pc EXCEPT ![c] = "reply"]
    /\ UNCHANGED <<cfg, installed, lock, prod, orphans, player_cmd, q, posts,
                   lines, printed, maxPosts, health, call, ret>>

\* process: resolve_speaker_id raises (the directory is unreachable, or the
\* name is not in it); the exception leaves the with block and process()
ResolveRaise(c, reachable) ==
    /\ pc[c] = "resolve"
    /\ ResolveLocal(c, ctx[c].speaker) = NoId
    /\ reachable => ClientResolve(Directory, ResolveName(ctx[c].speaker)) = NoId
    /\ ctx' = [ctx EXCEPT ![c].error =
                  IF reachable THEN "Speaker not found" ELSE "URLError",
                          ![c].faults = @ \cup {"resolve"}]
    /\ queries' = Queried(c, ResolveName(ctx[c].speaker))
    /\ lock' = LockExit(c, TRUE)
    /\ pc' = [pc EXCEPT ![c] = "raised"]
    /\ UNCHANGED <<cfg, installed, prod, orphans, player_cmd, cache, q, posts,
                   lines, printed, maxPosts, health, call, ret>>

\* a process() that goes on to player selection also for a dry run
MakeReplyIgnoresDryRun(c, o1, o2) ==
    /\ pc[c] = "reply"
    /\ LET r == make_reply(ctx[c].text, ctx[c].mode, cfg.min_chars,
                           cfg.max_chars, o1, o2)
       IN  ctx' = [ctx EXCEPT ![c].reply_text = r.reply_text,
                              ![c].reply_source = r.reply_source,
                              ![c].llm_calls = r.llm_calls,
                              ![c].faults = IF r.llm_failed THEN @ \cup {"llm"}
                                            ELSE @]
    /\ pc' = [pc EXCEPT ![c] = "detect"]
    /\ UNCHANGED <<cfg, installed, lock, prod, orphans, player_cmd, cache, q,
                   posts, lines, printed, maxPosts,
                   queries, health, call, ret>>

\* process: reply_text, latency, reply_source = self._make_reply(text, mode),
\* then `if not dry_run`
MakeReply(c, o1, o2) ==
    /\ pc[c] = "reply"
    /\ LET r == make_reply(ctx[c].text, ctx[c].mode, cfg.min_chars,
                           cfg.max_chars, o1, o2)
       IN  ctx' = [ctx EXCEPT ![c].reply_text = r.reply_text,
                              ![c].reply_source = r.reply_source,
                              ![c].llm_calls = r.llm_calls,
                              ![c].faults = IF r.llm_failed THEN @ \cup {"llm"}
                                            ELSE @]
    /\ pc' = [pc EXCEPT ![c] = IF ctx[c].dry_run THEN "finish" ELSE "detect"]
    /\ UNCHANGED <<cfg, installed, lock, prod, orphans, player_cmd, cache, q,
                   posts, lines, printed, maxPosts,
                   queries, health, call, ret>>

\* process: self.player_cmd, detected on first use and then kept
PlayerFor(c) ==
    IF player_cmd[c] = None
    THEN detect_player_command(cfg.player_command, installed)
    ELSE player_cmd[c]

\* process: detect_player_command raises; except Exception: error = str(exc)
DetectFail(c) ==
    /\ pc[c] = "detect"
    /\ PlayerFor(c) = <<>>
    /\ ctx' = [ctx EXCEPT ![c].error = "No audio player found",
                          ![c].faults = @ \cup {"detect"}]
    /\ pc' = [pc EXCEPT ![c] = "finish"]
    /\ UNCHANGED <<cfg, installed, lock, prod, orphans, player_cmd, cache, q,
                   posts, lines, printed, maxPosts,
                   queries, health, call, ret>>

\* segments = split_sentences(reply_text); if not segments: [reply_text]
SegmentsOf(reply_text) ==
    IF split_sentences(reply_text) = <<>> THEN <<reply_text>>
    ELSE split_sentences(reply_text)

\* the identity of a request, for the threads it leaves behind
Serial(c) == <<c, IF c = "worker" THEN ctx[c].task ELSE lines>>

\* process, streaming: the segments, synth_queue, and worker.start()
StartStream(c) ==
    /\ pc[c] = "detect"
    /\ PlayerFor(c) # <<>>
    /\ cfg.stream_playback
    /\ player_cmd' = [player_cmd EXCEPT ![c] = PlayerFor(c)]
    /\ ctx' = [ctx EXCEPT ![c].segments = SegmentsOf(ctx[c].reply_text)]
    /\ prod' = [prod EXCEPT ![c] =
                   [NoProd EXCEPT !.pc = "synth", !.owner = Serial(c),
                                  !.n = Len(SegmentsOf(ctx[c].reply_text)),
                                  !.i = 1]]
    /\ pc' = [pc EXCEPT ![c] = "get"]
    /\ UNCHANGED <<cfg, installed, lock, orphans, cache, q, posts, lines,
                   printed, maxPosts,
                   queries, health, call, ret>>

\* process, not streaming: up to the call of synthesize(reply_text)
StartWhole(c) ==
    /\ pc[c] = "detect"
    /\ PlayerFor(c) # <<>>
    /\ ~cfg.stream_playback
    /\ player_cmd' = [player_cmd EXCEPT ![c] = PlayerFor(c)]
    /\ ctx' = [ctx EXCEPT ![c].segments = <<ctx[c].reply_text>>]
    /\ pc' = [pc EXCEPT ![c] = "synth_whole"]
    /\ UNCHANGED <<cfg, installed, lock, prod, orphans, cache, q, posts,
                   lines, printed, maxPosts,
                   queries, health, call, ret>>

\* process, not streaming: wav = self.client.synthesize(reply_text, speaker_id)
SynthWhole(c, ok) ==
    /\ pc[c] = "synth_whole"
    /\ ctx' = IF ok
              THEN [ctx EXCEPT ![c].wav = 1, ![c].synthlog = <<1>>]
              ELSE [ctx EXCEPT ![c].error = "synthesize failed",
                               ![c].faults = @ \cup {"synth"}]
    /\ pc' = [pc EXCEPT ![c] = IF ok THEN "play" ELSE "finish"]
    /\ UNCHANGED <<cfg, installed, lock, prod, orphans, player_cmd, cache, q,
                   posts, lines, printed, maxPosts,
                   queries, health, call, ret>>

(***************************************************************************)
(* synth_worker: a thread record p holds its own synth_queue               *)
(***************************************************************************)

\* self.client.synthesize(segment, speaker_id) returns (ok) or raises
SynthStep(p, ok) ==
    IF ok THEN [p EXCEPT !.pc = "put", !.synthed = Append(@, p.i)]
    ELSE [p EXCEPT !.pc = "final", !.failed = TRUE]

\* a buffer that takes one entry more than its size
CanPutOffByOne(p) == Len(p.q) <= SynthQueueMaxsize

\* synth_queue.put returns at once: the queue of maxsize 2 is not full
CanPut(p) == Len(p.q) < SynthQueueMaxsize

\* synth_queue.put(wav) of segment i, then the next segment or the finally
PutStep(p) ==
    [p EXCEPT !.q = Append(@, p.i), !.i = p.i + 1,
              !.pc = IF p.i + 1 > p.n THEN "final" ELSE "synth"]

\* finally: synth_queue.put(None); the thread ends
FinalStep(p) == [p EXCEPT !.q = Append(@, Sentinel), !.pc = "done"]

ProducerSynth(c, ok) ==
    /\ prod[c].pc = "synth"
    /\ prod' = [prod EXCEPT ![c] = SynthStep(prod[c], ok)]
    /\ UNCHANGED <<cfg, installed, lock, pc, ctx, orphans, player_cmd, cache,
                   q, posts, lines, printed, maxPosts,
                   queries, health, call, ret>>

ProducerPut(c) ==
    /\ prod[c].pc = "put"
    /\ CanPut(prod[c])
    /\ prod' = [prod EXCEPT ![c] = PutStep(prod[c])]
    /\ UNCHANGED <<cfg, installed, lock, pc, ctx, orphans, player_cmd, cache,
                   q, posts, lines, printed, maxPosts,
                   queries, health, call, ret>>

ProducerFinal(c) ==
    /\ prod[c].pc = "final"
    /\ CanPut(prod[c])
    /\ prod' = [prod EXCEPT ![c] = FinalStep(prod[c])]
    /\ UNCHANGED <<cfg, installed, lock, pc, ctx, orphans, player_cmd, cache,
                   q, posts, lines, printed, maxPosts,
                   queries, health, call, ret>>

\* a synth_worker whose request has returned keeps running (daemon thread)
OrphanStep(o, ok) ==
    /\ o \in orphans
    /\ \/ o.pc = "synth"
       \/ o.pc \in {"put", "final"} /\ CanPut(o)
    /\ LET n == IF o.pc = "synth" THEN SynthStep(o, ok)
                ELSE IF o.pc = "put" THEN PutStep(o) ELSE FinalStep(o)
       IN  orphans' = (orphans \ {o}) \cup (IF n.pc = "done" THEN {} ELSE {n})
    /\ UNCHANGED <<cfg, installed, lock, pc, ctx, prod, player_cmd, cache, q,
                   posts, lines, printed, maxPosts,
                   queries, health, call, ret>>

(***************************************************************************)
(* GET /health, on a handler thread of the API process, outside the lock   *)
(***************************************************************************)

\* health: get_speakers(), then resolve_speaker_id(cfg.speaker_name) up to
\* its look in the cache; an unreachable directory answers "degraded"
HealthStart(reachable) ==
    /\ health.pc = "idle"
    /\ health.left > 0
    /\ health' = [pc |-> IF reachable /\ ResolveLocal("worker", cfg.speaker_name) = NoId
                         THEN "query" ELSE "idle",
                  left |-> health.left - 1]
    /\ UNCHANGED <<cfg, installed, lock, pc, ctx, prod, orphans, player_cmd,
                   cache, q, posts, lines, printed, maxPosts, queries, call, ret>>

\* health: after the miss, the directory query of resolve_speaker_id; a
\* name that is found is cached, an exception answers "degraded"
HealthQuery(reachable) ==
    /\ health.pc = "query"
    /\ queries' = Queried("worker", cfg.speaker_name)
    /\ cache' = IF reachable /\ ClientResolve(Directory, cfg.speaker_name) # NoId
                THEN [cache EXCEPT !["worker"][cfg.speaker_name] =
                         ClientResolve(Directory, cfg.speaker_name)]
                ELSE cache
    /\ health' = [health EXCEPT !.pc = "idle"]
    /\ UNCHANGED <<cfg, installed, lock, pc, ctx, prod, orphans, player_cmd,
                   q, posts, lines, printed, maxPosts, call, ret>>

(***************************************************************************)
(* process: the consumer loop, playback and the return                     *)
(***************************************************************************)

\* wav = synth_queue.get(); if wav is None: break
ConsumerGet(c) ==
    /\ pc[c] = "get"
    /\ prod[c].q # <<>>
    /\ prod' = [prod EXCEPT ![c].q = Tail(@)]
    /\ ctx' = [ctx EXCEPT ![c].wav = Head(prod[c].q), ![c].attempts = 0]
    /\ pc' = [pc EXCEPT ![c] = IF Head(prod[c].q) = Sentinel THEN "join" ELSE "play"]
    /\ UNCHANGED <<cfg, installed, lock, orphans, player_cmd, cache, q, posts,
                   lines, printed, maxPosts,
                   queries, health, call, ret>>

\* play_wav_bytes(self.player_cmd, wav) returns (ok) or raises; the exception
\* leaves the try block: except Exception: error = str(exc)
Play(c, ok) ==
    /\ pc[c] = "play"
    /\ ctx' = IF ok
              THEN [ctx EXCEPT ![c].playlog = Append(@, ctx[c].wav),
                               ![c].attempts = @ + 1,
                               ![c].played = ~cfg.stream_playback]
              ELSE [ctx EXCEPT ![c].error = "player failed",
                               ![c].attempts = @ + 1,
                               ![c].faults = @ \cup {"play"}]
    /\ pc' = [pc EXCEPT ![c] = IF ok /\ cfg.stream_playback THEN "get" ELSE "finish"]
    /\ UNCHANGED <<cfg, installed, lock, prod, orphans, player_cmd, cache, q,
                   posts, lines, printed, maxPosts,
                   queries, health, call, ret>>

\* after the sentinel: worker.join(timeout=1); played = True
Join(c) ==
    /\ pc[c] = "join"
    /\ ctx' = [ctx EXCEPT ![c].played = TRUE]
    /\ pc' = [pc EXCEPT ![c] = "finish"]
    /\ UNCHANGED <<cfg, installed, lock, prod, orphans, player_cmd, cache, q,
                   posts, lines, printed, maxPosts,
                   queries, health, call, ret>>

\* the result dictionary process() builds
ResultOf(x) ==
    [reply_text |-> x.reply_text, played |-> x.played,
     speaker_id |-> x.speaker_id, reply_source |-> x.reply_source,
     mode |-> x.mode, error |-> x.error]

\* process: build the result, log it, return it; the with block is left
Finish(c) ==
    /\ pc[c] = "finish"
    /\ ctx' = [ctx EXCEPT ![c].result = ResultOf(ctx[c]),
                          ![c].synthlog = IF prod[c].pc = "none" THEN @
                                          ELSE prod[c].synthed,
                          ![c].faults = IF prod[c].failed THEN @ \cup {"synth"}
                                        ELSE @]
    /\ lock' = LockExit(c, FALSE)
    /\ orphans' = IF prod[c].pc \in {"none", "done"} THEN orphans
                  ELSE orphans \cup {prod[c]}
    /\ prod' = [prod EXCEPT ![c] = NoProd]
    /\ pc' = [pc EXCEPT ![c] = "returned"]
    /\ UNCHANGED <<cfg, installed, player_cmd, cache, q, posts, lines, printed, maxPosts,
                   queries, health, call, ret>>

Next ==
    \/ \E pl \in Payloads : DoPost400(pl)
    \/ \E pl \in Payloads : DoPostFull(pl)
    \/ \E pl \in Payloads : DoPostEnqueue(pl)
    \/ \E id \in 1..Len(posts) : DoPostRespond(id)
    \/ WorkerGet
    \/ WorkerPost
    \/ WorkerExcept
    \/ \E l \in CliLines : CliSkip(l)
    \/ \E l \in CliLines : CliRead(l)
    \/ CliPrint
    \/ \E c \in Callers : Acquire(c)
    \/ \E c \in Callers : ResolveHit(c)
    \/ \E c \in Callers : ResolveQuery(c)
    \/ \E c \in Callers, reachable \in BOOLEAN : ResolveRaise(c, reachable)
    \/ \E c \in Callers, o1, o2 \in LlmOutcomes : MakeReply(c, o1, o2)
    \/ \E c \in Callers : DetectFail(c)
    \/ \E c \in Callers : StartStream(c)
    \/ \E c \in Callers : StartWhole(c)
    \/ \E c \in Callers, ok \in BOOLEAN : SynthWhole(c, ok)
    \/ \E c \in Callers, ok \in BOOLEAN : ProducerSynth(c, ok)
    \/ \E c \in Callers : ProducerPut(c)
    \/ \E c \in Callers : ProducerFinal(c)
    \/ \E o \in orphans, ok \in BOOLEAN : OrphanStep(o, ok)
    \/ \E c \in Callers : ConsumerGet(c)
    \/ \E c \in Callers, ok \in BOOLEAN : Play(c, ok)
    \/ \E c \in Callers : Join(c)
    \/ \E c \in Callers : Finish(c)
    \/ \E reachable \in BOOLEAN : HealthStart(reachable)
    \/ \E reachable \in BOOLEAN : HealthQuery(reachable)

Spec == Init /\ [][Next]_vars

(***************************************************************************)
(* Fairness: every thread that can take a step eventually takes it (the    *)
(* external calls return or fail), and a caller waiting in flock gets the  *)
(* lock if it is free again and again.                                     *)
(***************************************************************************)

CallerStep(c) ==
    \/ ResolveHit(c)
    \/ ResolveQuery(c)
    \/ \E reachable \in BOOLEAN : ResolveRaise(c, reachable)
    \/ \E o1, o2 \in LlmOutcomes : MakeReply(c, o1, o2)
    \/ DetectFail(c)
    \/ StartStream(c)
    \/ StartWhole(c)
    \/ \E ok \in BOOLEAN : SynthWhole(c, ok)
    \/ ConsumerGet(c)
    \/ \E ok \in BOOLEAN : Play(c, ok)
    \/ Join(c)
    \/ Finish(c)

ProducerStep(c) ==
    \/ \E ok \in BOOLEAN : ProducerSynth(c, ok)
    \/ ProducerPut(c)
    \/ ProducerFinal(c)

\* the worker thread of the API process
WorkerThread ==
    \/ WorkerGet
    \/ WorkerPost
    \/ WorkerExcept
    \/ Acquire("worker")
    \/ CallerStep("worker")

\* the main thread of the CLI process, once it has read a line
CliThread ==
    \/ Acquire("cli")
    \/ CallerStep("cli")
    \/ CliPrint

Fairness ==
    /\ SF_vars(WorkerThread)
    /\ WF_vars(CliThread)
    /\ WF_vars(ProducerStep("worker"))
    /\ WF_vars(ProducerStep("cli"))

\* the runs checked for liveness
MaxLiveRequests == 2

InitLive ==
    /\ \/ InitRun(MaxLiveRequests, 0, 0)
       \/ InitRun(MaxShared, MaxShared, 0)
       \/ InitRun(MaxShared, 0, MaxHealth)
    /\ call = NoCall
    /\ ret = None

FairSpec == InitLive /\ [][Next]_vars /\ Fairness

(***************************************************************************)
(* The pure functions, applied to every input of a bounded domain: call    *)
(* holds the application and, once it is made, ret its value.              *)
(***************************************************************************)

\* bounds: the longest text, and the largest MIN_CHARS and MAX_CHARS
MaxTextLen == 4
MaxChars == 5
MaxLlmLen == 2

TextAlphabet == {"a", Space, Maru, Bang, Ques, Dash}
LlmAlphabet == {"a", Space, Maru, Ques}

\* every text of at most n characters
TextsUpTo(n) == UNION {[1..k -> TextAlphabet] : k \in 0..n}

\* texts with full-width question marks
QuestionTexts == UNION {[1..k -> {"a", ZQues}] : k \in 1..MaxTextLen}

\* what run_llm can return: a stripped, non-empty output
LlmOutputs ==
    {t \in UNION {[1..k -> LlmAlphabet] : k \in 1..MaxLlmLen} : Strip(t) = t}

\* PLAYER_COMMAND values, as words and blanks, and the programs on the PATH
PlayerPrefs ==
    { <<>>, <<Space>>, <<"mpv">>, <<"pw-play">>,
      <<Space, "aplay", Space, "-q">> }
Programs == {"pw-play", "paplay", "aplay", "mpv"}

\* the rest of the state plays no part in an application
svars == <<cfg, installed, lock, pc, ctx, prod, orphans, player_cmd, cache, q,
           posts, lines, printed, maxPosts, queries, health>>

\* the applications tried
NormalizeTextCalls ==
    [fn : {"normalize_text"}, applied : {FALSE},
     text : TextsUpTo(MaxTextLen) \cup QuestionTexts,
     min_chars : 0..MaxChars, max_chars : 0..MaxChars]
NormalizeDirectTextCalls ==
    [fn : {"normalize_direct_text"}, applied : {FALSE}, text : TextsUpTo(MaxTextLen)]
MakeReplyCalls ==
    [fn : {"make_reply"}, applied : {FALSE}, text : {<<"a">>}, mode : {"llm"},
     min_chars : 0..MaxChars, max_chars : 0..MaxChars,
     o1 : LlmOutputs \cup {LlmFail}, o2 : LlmOutputs \cup {LlmFail}]
DetectPlayerCommandCalls ==
    [fn : {"detect_player_command"}, applied : {FALSE}, user_command : PlayerPrefs,
     which : SUBSET Programs]

\* POST /speak bodies by their "mode": absent, and the values tried
ModePayloads ==
    {[text |-> <<"a">>]}
    \cup [text : {<<"a">>}, mode : {"auto", "direct", "llm", "unknown"}]

\* _worker: mode=str(payload.get("mode", "llm"))
PayloadMode(payload) ==
    IF "mode" \in DOMAIN payload THEN payload.mode ELSE "llm"

WorkerReplyCalls ==
    {[fn |-> "worker_reply", applied |-> FALSE, payload |-> p, o1 |-> a, o2 |-> b] :
        p \in ModePayloads, a \in LlmOutcomes, b \in LlmOutcomes}

FnInit ==
    /\ InitRun(0, 0, 0)
    /\ cfg.queue_max = 0 /\ cfg.stream_playback
    /\ installed = {}
    /\ \/ call \in NormalizeTextCalls
       \/ call \in NormalizeDirectTextCalls
       \/ call \in MakeReplyCalls
       \/ call \in DetectPlayerCommandCalls
       \/ call \in WorkerReplyCalls
    /\ ret = None

CallNormalizeText ==
    /\ ~call.applied
    /\ call.fn = "normalize_text"
    /\ ret' = normalize_text(call.text, call.min_chars, call.max_chars)
    /\ call' = [call EXCEPT !.applied = TRUE]
    /\ UNCHANGED svars

CallNormalizeDirectText ==
    /\ ~call.applied
    /\ call.fn = "normalize_direct_text"
    /\ ret' = normalize_direct_text(call.text)
    /\ call' = [call EXCEPT !.applied = TRUE]
    /\ UNCHANGED svars

\* _make_reply in llm mode, with the outcomes of its LLM calls
CallMakeReply ==
    /\ ~call.applied
    /\ call.fn = "make_reply"
    /\ ret' = make_reply(call.text, call.mode, call.min_chars, call.max_chars,
                         call.o1, call.o2)
    /\ call' = [call EXCEPT !.applied = TRUE]
    /\ UNCHANGED svars

CallDetectPlayerCommand ==
    /\ ~call.applied
    /\ call.fn = "detect_player_command"
    /\ ret' = detect_player_command(call.user_command, call.which)
    /\ call' = [call EXCEPT !.applied = TRUE]
    /\ UNCHANGED svars

\* _worker hands the text and the mode of the payload to process(), which
\* hands them to _make_reply as they are
CallWorkerReply ==
    /\ ~call.applied
    /\ call.fn = "worker_reply"
    /\ ret' = make_reply(call.payload.text, PayloadMode(call.payload),
                         cfg.min_chars, cfg.max_chars, call.o1, call.o2)
    /\ call' = [call EXCEPT !.applied = TRUE]
    /\ UNCHANGED svars

FnNext ==
    \/ CallNormalizeText
    \/ CallNormalizeDirectText
    \/ CallMakeReply
    \/ CallDetectPlayerCommand
    \/ CallWorkerReply

FnSpec == FnInit /\ [][FnNext]_vars

(***************************************************************************)
(* The streaming pipeline alone: an API process with STREAM_PLAYBACK on    *)
(* and a player installed serves direct requests of one to MaxSegments     *)
(* sentences.                                                              *)
(***************************************************************************)

\* bounds: the sentences of the longest reply, and the requests of a run
MaxSegments == 4
MaxStreamRequests == 1

\* a text of k sentences
Sentences[k \in Nat] ==
    IF k = 0 THEN <<>> ELSE Sentences[k - 1] \o <<"a", Maru>>

StreamPayloads ==
    {[text |-> Sentences[k], mode |-> "direct", dry_run |-> FALSE, speaker |-> "7"] :
        k \in 1..MaxSegments}

StreamInit ==
    /\ InitRun(MaxStreamRequests, 0, 0)
    /\ cfg.stream_playback
    /\ cfg.queue_max = 0
    /\ installed # {}
    /\ call = NoCall
    /\ ret = None

StreamNext ==
    \/ \E pl \in StreamPayloads : DoPostEnqueue(pl)
    \/ \E id \in 1..Len(posts) : DoPostRespond(id)
    \/ WorkerGet
    \/ WorkerPost
    \/ Acquire("worker")
    \/ ResolveHit("worker")
    \/ \E o \in LlmOutcomes : MakeReply("worker", o, o)
    \/ StartStream("worker")
    \/ \E ok \in BOOLEAN : ProducerSynth("worker", ok)
    \/ ProducerPut("worker")
    \/ ProducerFinal("worker")
    \/ \E o \in orphans, ok \in BOOLEAN : OrphanStep(o, ok)
    \/ ConsumerGet("worker")
    \/ \E ok \in BOOLEAN : Play("worker", ok)
    \/ Join("worker")
    \/ Finish("worker")

StreamSpec == StreamInit /\ [][StreamNext]_vars

(***************************************************************************)
(* Properties                                                              *)
(***************************************************************************)

\* the caller is inside the with ProcessLock(...) block of process()
InScope(c) ==
    pc[c] \in {"resolve", "reply", "detect", "synth_whole", "get", "play",
               "join", "finish"}

Admitted(id) == id <= Len(posts) /\ posts[id].http \notin {400, 429}
Queued(id) == \E k \in 1..Len(q) : q[k] = id
Started(id) == Admitted(id) /\ ~Queued(id)
Done(id) == id <= Len(posts) /\ posts[id].done
Rejected(id) == id <= Len(posts) /\ posts[id].http = 429

\* admitted requests whose Result has not been posted: queued or in the worker
Pending == Cardinality({id \in 1..Len(posts) : Admitted(id) /\ ~Done(id)})

Iota(n) == [i \in 1..n |-> i]

\* C1: at every instant at most one caller of process(), over all threads
\* and processes using the lock path, is inside the locked scope.
C1_MutualExclusion == Cardinality({c \in Callers : InScope(c)}) <= 1

\* one caller is inside the scope while the other is blocked in flock
C1_Witness ==
    \E c, d \in Callers : c # d /\ InScope(c) /\ pc[d] = "lock" /\ lock = c

\* C2: the lock is held by a caller only while it is inside the locked scope:
\* once process() has returned or raised, on every exit path, the caller no
\* longer holds the lock and the next acquirer can take it.
C2_LockReleasedOnExit ==
    \A c \in Callers : (lock = c) => InScope(c)

\* process() of the worker has raised (speaker resolution failed) and the CLI
\* process has acquired the lock since
C2_Witness == pc["worker"] = "raised" /\ lock = "cli"

\* C3: a submission to a full queue is answered 429 in the same step, leaves
\* the queue unchanged, and the rejected request is never queued, never
\* handed to the worker and never marked done.
C3_RejectedNeverQueued ==
    /\ [](\A id \in 1..Len(posts) :
            Rejected(id) => /\ ~Queued(id)
                            /\ ctx["worker"].task # id
                            /\ ~posts[id].done)
    /\ [][(Len(posts') = Len(posts) + 1 /\ Full(q, cfg.queue_max))
            => /\ posts'[Len(posts')].http \in {400, 429}
               /\ q' = q]_vars

\* a request was rejected while the queue was full, and the worker has since
\* finished a request admitted after the rejection
C3_Witness ==
    \E id \in 1..Len(posts) :
        Rejected(id) /\ \E j \in 1..Len(posts) : j > id /\ Admitted(j) /\ Done(j)

\* C4 as stated: with a positive queue_max, the pending requests (queued or
\* being processed) never exceed queue_max.
C4_PendingAtMostQueueMax ==
    cfg.queue_max > 0 => Pending <= cfg.queue_max

\* C4, amended: with a positive queue_max the queue never holds more than
\* queue_max requests, and the pending requests, which include the one the
\* worker has taken out of the queue, never exceed queue_max + 1; a
\* queue_max of 0 makes the queue unbounded and nothing is rejected.
C4_QueueBounded ==
    /\ cfg.queue_max > 0 => /\ Len(q) <= cfg.queue_max
                            /\ Pending <= cfg.queue_max + 1
    /\ cfg.queue_max <= 0 => \A id \in 1..Len(posts) : ~Rejected(id)

\* queue_max requests are queued behind the one being processed, and a
\* further submission has been rejected
C4_Witness ==
    /\ cfg.queue_max > 0
    /\ Len(q) = cfg.queue_max
    /\ Pending = cfg.queue_max + 1
    /\ \E id \in 1..Len(posts) : Rejected(id)

\* C5: requests are processed in admission order: when the worker has taken
\* request B out of the queue, the Result of every request admitted before B
\* has been posted.
C5_Fifo ==
    \A a, b \in 1..Len(posts) :
        (a < b /\ Admitted(a) /\ Admitted(b) /\ Started(b)) => Done(a)

\* the first request is done, the second is being processed, the third waits
C5_Witness ==
    /\ Len(posts) = 3
    /\ Done(1) /\ Admitted(1)
    /\ ctx["worker"].task = 2
    /\ q = <<3>>

\* C6 (the part about the posted Result): when speaker resolution, player
\* selection, synthesis or playback failed during a request, the Result the
\* worker posts carries an error.
C6_PostedResultCarriesError ==
    \A id \in 1..Len(posts) :
        (posts[id].done /\ posts[id].http = 0
         /\ posts[id].faults \cap {"resolve", "detect", "synth", "play"} # {})
        => posts[id].result.error # "None"

\* C7: every admitted request is eventually marked done.
C7_AdmittedEventuallyDone ==
    \A id \in 1..MaxLiveRequests : Admitted(id) ~> Done(id)

\* the CLI has had the lock and printed its Result, and the worker has posted
\* the Result of an admitted request
C7_Witness ==
    /\ printed > 0
    /\ \E id \in 1..Len(posts) : Admitted(id) /\ Done(id) /\ posts[id].http = 0

\* C8: a streaming request that reports played has synthesized and played
\* every segment of its reply exactly once, in order.
C8_AllSegmentsPlayed ==
    \A c \in Callers :
        (pc[c] = "returned" /\ cfg.stream_playback /\ ctx[c].result.played)
        => /\ ctx[c].synthlog = Iota(Len(ctx[c].segments))
           /\ ctx[c].playlog = Iota(Len(ctx[c].segments))

\* C9: when synthesis or playback failed in a request that is not a dry run,
\* the Result has an error, played = false, and the generated reply_text.
C9_FailureReported ==
    \A c \in Callers :
        (pc[c] = "returned" /\ ~ctx[c].dry_run
         /\ ctx[c].faults \cap {"synth", "play"} # {})
        => /\ ctx[c].result.error # "None"
           /\ ~ctx[c].result.played
           /\ ctx[c].result.reply_text = ctx[c].reply_text
           /\ ctx[c].result.reply_text # None

\* an installed candidate other than the selected player
UntriedCandidate(c) ==
    \E k \in 1..Len(PlayerCandidates) :
        /\ PlayerCandidates[k].prog \in installed
        /\ PlayerCandidates[k].cmd # player_cmd[c]

\* C10: when playing a payload failed and another candidate is installed, the
\* payload has been played a second time with that candidate.
C10_RetryWithNextCandidate ==
    \A c \in Callers :
        (pc[c] = "returned" /\ "play" \in ctx[c].faults /\ UntriedCandidate(c))
        => ctx[c].attempts = 2

\* the name a resolve of caller c is about has been resolved before in c's
\* process
Known(c, name) == name \in SpeakerNames /\ cache[c][name] # NoId

\* a resolve of a request of caller c that begins with the name known
\* returns the cached id and queries nothing
KnownRequestResolve(c) ==
    (pc[c] = "resolve" /\ pc'[c] # "resolve"
     /\ Known(c, ResolveName(ctx[c].speaker)))
    => /\ queries' = queries
       /\ cache' = cache
       /\ pc'[c] = "reply"
       /\ ctx'[c].speaker_id = cache[c][ResolveName(ctx[c].speaker)]

\* the same for the resolve of a health check
KnownHealthResolve ==
    (health.pc = "idle" /\ health'.left < health.left
     /\ Known("worker", cfg.speaker_name))
    => /\ queries' = queries
       /\ cache' = cache
       /\ health'.pc = "idle"

\* C15: a resolve that begins after a resolve of the same name has succeeded
\* in that process returns the same voice id and issues no directory query,
\* in a request and in a health check alike; a cached name has been queried.
C15_CachedResolveIssuesNoQuery ==
    /\ [](\A c \in Callers, n \in SpeakerNames :
            cache[c][n] # NoId => queries[c][n] >= 1)
    /\ [][(\A c \in Callers : KnownRequestResolve(c)) /\ KnownHealthResolve]_vars

\* the worker has resolved the name of its second request from the cache:
\* two resolves of the name, one directory query
C15_Witness ==
    /\ ctx["worker"].task = 2
    /\ ctx["worker"].hit
    /\ ctx["worker"].speaker_id = 14
    /\ queries["worker"]["himari"] = 1

\* C16: over the lifetime of a process the resolver issues at most one
\* directory query per distinct voice name.
C16_OneQueryPerName ==
    \A c \in Callers, n \in SpeakerNames : queries[c][n] <= 1

\* C17: a dry-run request never reaches player selection, synthesis or
\* playback and starts no synth_worker; its Result has played = false and no
\* error; the cached player selection is the same before and after it.
C17_DryRunNeverPlays ==
    /\ [](\A c \in Callers :
            ctx[c].dry_run
            => /\ pc[c] \notin {"detect", "synth_whole", "get", "play", "join"}
               /\ prod[c] = NoProd
               /\ ctx[c].attempts = 0
               /\ ctx[c].playlog = <<>> /\ ctx[c].synthlog = <<>>
               /\ ctx[c].faults \cap {"detect", "synth", "play"} = {}
               /\ pc[c] = "returned" => /\ ~ctx[c].result.played
                                        /\ ctx[c].result.error = "None")
    /\ [](\A id \in 1..Len(posts) :
            (posts[id].payload.dry_run /\ posts[id].done
             /\ posts[id].result.reply_text # None)
            => ~posts[id].result.played /\ posts[id].result.error = "None")
    /\ [][\A c \in Callers :
            ctx[c].dry_run => player_cmd'[c] = player_cmd[c]]_vars

\* a dry run has returned in a process whose player was selected by an
\* earlier request
C17_Witness ==
    /\ pc["worker"] = "returned"
    /\ ctx["worker"].dry_run
    /\ player_cmd["worker"] # None

\* the text of a POST /speak body is missing, empty or only whitespace
Blank(text) == \A i \in 1..Len(text) : text[i] \in {Space, CR, LF}

\* the status POST /speak gives a request on arrival (0: admitted, the
\* handler waits), and what happens to the queue
ArrivalAnswered ==
    Len(posts') = Len(posts) + 1
    => LET p == posts'[Len(posts')]
       IN  /\ p.http = IF Blank(p.payload.text) THEN 400
                       ELSE IF cfg.queue_max > 0 /\ Len(q) >= cfg.queue_max
                            THEN 429 ELSE 0
           /\ q' = IF p.http = 0 THEN Append(q, Len(posts')) ELSE q

\* the status an admitted request is answered with
AdmittedAnswered(id) ==
    (posts[id].http = 0 /\ posts'[id].http # 0)
    => /\ posts[id].done
       /\ posts'[id].http =
              IF posts[id].result.error # "None"
                 /\ posts[id].result.reply_text = None
              THEN 500 ELSE 200

\* C20: POST /speak answers 400 for a missing or blank text and 429 when the
\* queue is at capacity, and such a request is never queued, processed or
\* marked done; an admitted request is answered 500 exactly when its Result
\* has an error and no reply_text, and 200 otherwise.
C20_SpeakStatus ==
    /\ [](\A id \in 1..Len(posts) :
            posts[id].http \in {400, 429}
            => ~Queued(id) /\ ctx["worker"].task # id /\ ~posts[id].done)
    /\ [][ArrivalAnswered
          /\ \A id \in 1..Len(posts) : AdmittedAnswered(id)]_vars

\* requests have been answered 400, 429, 500 and, for a Result with an
\* error (no player found) and a reply_text, 200
C20_Witness ==
    /\ \E id \in 1..Len(posts) : posts[id].http = 200 /\ "detect" \in posts[id].faults
    /\ \E id \in 1..Len(posts) : posts[id].http \in {400, 429}
    /\ \E id \in 1..Len(posts) : posts[id].http = 500

\* the call of the function fn has returned
Returned(fn) == call.applied /\ call.fn = fn

\* C11: in llm mode _make_reply makes one or two LLM calls and returns a
\* non-empty reply text for every pair of LLM outcomes, failures included.
C11_LlmReplyNeverEmpty ==
    Returned("make_reply")
    => /\ ret.llm_calls \in {1, 2}
       /\ ret.reply_text # None
       /\ Len(ret.reply_text) >= 1
       /\ ret.reply_source \in {"llm", "fallback"}

\* both LLM calls failed and the fallback reply is too short for MIN_CHARS:
\* the reply is the fallback constant itself
C11_Witness ==
    /\ Returned("make_reply")
    /\ call.o1 = LlmFail /\ call.o2 = LlmFail
    /\ ret.llm_calls = 2
    /\ ret.reply_source = "fallback"
    /\ ret.reply_text = FALLBACK_REPLY

\* C12: for min_chars <= max_chars, the reply of llm mode has a length
\* between min_chars and max_chars or is the fallback reply, and every
\* non-none value of normalize_text has at most max_chars characters.
C12_LlmReplyWithinBounds ==
    /\ (Returned("make_reply") /\ call.min_chars <= call.max_chars)
       => \/ /\ call.min_chars <= Len(ret.reply_text)
             /\ Len(ret.reply_text) <= call.max_chars
          \/ ret.reply_text = FALLBACK_REPLY
    /\ (Returned("normalize_text") /\ call.min_chars <= call.max_chars
        /\ ret # None)
       => Len(ret) <= call.max_chars

\* C13 as stated: normalize_text returns none for every text shorter than
\* min_chars.
C13_ShortInputRejected ==
    (Returned("normalize_text") /\ Len(call.text) < call.min_chars)
    => ret = None

\* C13, amended: every non-none value of normalize_text has at least
\* min_chars characters; a text shorter than min_chars - 1 gives none, and
\* a text of min_chars - 1 characters is returned only with the closing mark
\* that was added to it, which brings it to min_chars.
C13_ShortResultRejected ==
    Returned("normalize_text")
    => /\ ret # None => Len(ret) >= call.min_chars
       /\ Len(call.text) < call.min_chars - 1 => ret = None
       /\ (Len(call.text) = call.min_chars - 1 /\ ret # None)
          => /\ Len(ret) = call.min_chars
             /\ LastChar(ret) = Maru
             /\ LastChar(call.text) # Maru

\* a text one character short of min_chars has been returned with its mark
C13_Witness ==
    /\ Returned("normalize_text")
    /\ call.min_chars >= 2
    /\ Len(call.text) = call.min_chars - 1
    /\ ret # None

Terminals == {Maru, ZBang, ZQues, Bang, Ques}

\* the characters of text that are in chars
Count(text, chars) == Cardinality({i \in 1..Len(text) : text[i] \in chars})

\* C14: normalize_direct_text returns none (for a blank text only) or a
\* non-empty text that ends with a terminal mark; a text that ends with a
\* terminal mark gets no further one, and no character other than
\* whitespace and list markers is dropped, whatever the length.
C14_DirectTextEndsWithMark ==
    Returned("normalize_direct_text")
    => IF ret = None THEN Blank(call.text)
       ELSE /\ Len(ret) >= 1
            /\ LastChar(ret) \in Terminals
            /\ Count(ret, {"a"}) = Count(call.text, {"a"})
            /\ Count(ret, Terminals) >= Count(call.text, Terminals)
            /\ (call.text # <<>> /\ LastChar(call.text) \in Terminals)
               => Count(ret, Terminals) = Count(call.text, Terminals)

\* a text of the greatest length that ends with "!" came back unchanged
C14_Witness ==
    /\ Returned("normalize_direct_text")
    /\ Len(call.text) = MaxTextLen
    /\ LastChar(call.text) = Bang
    /\ ret = call.text

\* shlex.split of a command of words and blanks, spelled out
Tokens(user_command) ==
    SelectSeq(user_command, LAMBDA w : w \notin {Space, CR, LF})

\* the first installed candidate in the order pw-play, paplay, aplay -q;
\* <<>> when none is installed
FirstCandidate(which) ==
    IF "pw-play" \in which THEN <<"pw-play">>
    ELSE IF "paplay" \in which THEN <<"paplay">>
    ELSE IF "aplay" \in which THEN <<"aplay", "-q">>
    ELSE <<>>

C19_FallsBackWhenConfiguredUnavailable ==
    (/\ Returned("detect_player_command")
     /\ ~Blank(call.user_command)
     /\ Tokens(call.user_command)[1] \notin call.which
     /\ call.which \cap {"pw-play", "paplay", "aplay"} # {})
    => /\ ret # Tokens(call.user_command)
       /\ ret = FirstCandidate(call.which)

\* the reply of a request is generated as direct mode generates it: by
\* normalize_direct_text, without an LLM call
HandledAsDirect ==
    /\ ret.reply_source = "direct"
    /\ ret.llm_calls = 0
    /\ ret.reply_text = normalize_direct_text(call.payload.text)

\* the reply of a request is generated as llm mode generates it
HandledAsLlm ==
    /\ ret.reply_source \in {"llm", "fallback"}
    /\ ret.llm_calls \in {1, 2}

\* C21: a request of mode auto or direct is handled as direct, without an
\* LLM call; a request of mode llm, of any other mode, or without a mode is
\* handled as llm.
C21_ModeNormalized ==
    Returned("worker_reply")
    => IF PayloadMode(call.payload) \in {"auto", "direct"}
       THEN HandledAsDirect
       ELSE HandledAsLlm

\* C22: every request line the CLI has read gets its Result printed, also
\* when the request fails, and the CLI then goes on with the lines that are
\* left: the n-th request line read leads to the n-th Result printed and to
\* the CLI back at its input.
C22_EveryLinePrinted ==
    \A n \in 0..MaxShared :
        (pc["cli"] = "lock" /\ printed = n)
        ~> (pc["cli"] = "idle" /\ printed = n + 1)

\* C23: no synth_worker thread outlives its request: when process() has
\* returned, the producer it started has ended, so none synthesizes, writes
\* to its buffer or waits for room in it afterwards.
C23_ProducerEndsWithRequest == orphans = {}

\* the payload a synth_worker has synthesized and not yet handed over
Held(p) == IF p.pc = "put" THEN 1 ELSE 0

\* the payloads stored in a synth_queue (the sentinel is not one)
Buffered(p) == Cardinality({k \in 1..Len(p.q) : p.q[k] # Sentinel})

\* the payload the consumer of c's streaming request is playing
Playing(c) == IF pc[c] = "play" /\ cfg.stream_playback THEN 1 ELSE 0

\* the payloads of c's streaming request synthesized and not yet played
InFlight(c) == Held(prod[c]) + Buffered(prod[c]) + Playing(c)

\* C24 as stated: at most 2 payloads of a request are in flight, held by the
\* producer, stored in the buffer or being played, and the buffer never holds
\* more than 2 entries.
C24_AtMostTwoInFlight ==
    \A c \in Callers :
        /\ InFlight(c) <= SynthQueueMaxsize
        /\ Len(prod[c].q) <= SynthQueueMaxsize

\* C24, amended: the buffer never holds more than 2 entries, the sentinel
\* included; with the payload the producer holds while it waits for room and
\* the payload the consumer is playing, at most 4 payloads of a request are
\* in flight, and at most 3 of a request that has returned.
C24_InFlightBounded ==
    /\ \A c \in Callers :
           /\ Len(prod[c].q) <= SynthQueueMaxsize
           /\ Buffered(prod[c]) <= SynthQueueMaxsize
           /\ InFlight(c) <= SynthQueueMaxsize + 2
    /\ \A o \in orphans :
           /\ Len(o.q) <= SynthQueueMaxsize
           /\ Held(o) + Buffered(o) <= SynthQueueMaxsize + 1

\* the first payload is being played, the second and third are in the
\* buffer, and the producer holds the fourth, waiting for room
C24_Witness ==
    /\ pc["worker"] = "play"
    /\ ctx["worker"].wav = 1
    /\ prod["worker"].q = <<2, 3>>
    /\ prod["worker"].pc = "put"
    /\ prod["worker"].i = 4
    /\ InFlight("worker") = SynthQueueMaxsize + 2

\* speaker resolution has begun in c's request: it has given an id or has
\* failed
ResolutionBegun(c) ==
    \/ ctx[c].speaker_id # NoId
    \/ "resolve" \in ctx[c].faults

\* C25: reply generation is complete before speaker resolution begins: a
\* request whose speaker has been resolved, or whose resolution has failed,
\* holds the lock or has held it and has its reply text.
C25_ReplyBeforeResolution ==
    \A c \in Callers :
        ResolutionBegun(c)
        => /\ pc[c] \notin {"idle", "lock"}
           /\ ctx[c].reply_text # None

\* C26: no text normalize_text returns ends with a question mark, ASCII or
\* full-width, also when the text was cut at a sentence boundary; so no
\* reply of source llm ends with one.
C26_NeverEndsWithQuestionMark ==
    /\ (Returned("normalize_text") /\ ret # None /\ ret # <<>>)
       => LastChar(ret) \notin {Ques, ZQues}
    /\ (Returned("make_reply") /\ ret.reply_source = "llm")
       => LastChar(ret.reply_text) \notin {Ques, ZQues}

====
